---- MODULE Spec2Model ----
(***************************************************************************)
(* Turn-taking pipeline of the SimliOpenAI component                       *)
(* (src/app/SimliOpenAI.tsx): session lifecycle, transcript handling,      *)
(* backend and speech-synthesis requests, chunk queue and avatar sink.     *)
(*                                                                         *)
(* Every action is one run-to-completion step of the browser's event loop: *)
(* an event handler, or the continuation of an async function after the    *)
(* awaited network/timer/device event has arrived.  Promise continuations  *)
(* that are separated only by microtasks belong to the same step.          *)
(*                                                                         *)
(* Display-only React state (userMessage, timings, isProcessing,           *)
(* processingStep) and the onError callback, which only sets the error     *)
(* text, are not modelled; audioContextRef is never assigned in the source *)
(* and stays null, so its branches are dead.                               *)
(***************************************************************************)
EXTENDS Integers, Sequences, FiniteSets, TLC

\* ---- bounds of the model ------------------------------------------------
\* Size of an explored run: a handleStart weighs two units; a handleStop, a
\* "disconnected" event of the avatar client and a reply (greeting or turn)
\* weigh one each.  Everything these set off is explored without a bound.
MaxWork == 5

\* ---- program constants --------------------------------------------------
ConfThreshold == 70   \* result.confidence > 0.7, in hundredths
ChunkSize == 4800     \* const chunkSize = 4800
InputRate == 24000    \* downsampleAudio(audioData, 24000, 16000)
OutputRate == 16000

StartIds == 1..(MaxWork \div 2)
TaskIds == 1..(MaxWork - 2)
\* a session is connected again only after a stop, and the k-th connected
\* session creates at most k services (one per registered listener)
MaxConnected == (MaxWork + 1) \div 3
ServiceIds == 1..((MaxConnected * (MaxConnected + 1)) \div 2)

\* confidence scores (hundredths) and isFinal flags of the TranscriptEvents
Confidences == {0, 70, 71, 100}
TranscriptEvents == [isFinal : BOOLEAN, confidence : Confidences]

\* sample counts of the PCM buffers the synthesizer returns (at InputRate)
PcmLengths == {0, 9000, 24000}

VARIABLES
  isLoading, error, isAvatarVisible, isRecording,   \* useState
  streamRef, isFirstRun, deepgramServiceRef,        \* useRef
  audioChunkQueueRef, isProcessingChunkRef, isSpeakingRef,
  startPc,        \* handleStart invocations and where each one is suspended
  connHandlers,   \* "connected"/"disconnected" listener pairs on simliClient
  simliConn,      \* simliClient has a connection it has not announced yet
  services,       \* state of every Deepgram service created
  pendingStops,   \* stopRecording calls suspended in `await service.stop()`
  micOpen,        \* microphone streams acquired and not yet released
  timer,          \* the 1 s greeting timeout
  tasks,          \* replies: where each async chain is suspended, and the
                  \* length of the downsampled buffer once it is enqueued
  sink,           \* chunks handed to simliClient.sendAudioData, in order
  session,        \* number of handleStart calls so far
  stopped,        \* handleStop has returned and no handleStart since
  confirmed,      \* sessions that handled a connect confirmation
  greeted,        \* greeting timeouts scheduled, per session
  work,           \* what the run has used of MaxWork
  last,           \* the step taken last
  userIdRef,      \* the identifier generated when the component mounts
  posted,         \* the userId of every request sent to the backend, in order
  call            \* a helper function called on its own: arguments, result

vars == <<isLoading, error, isAvatarVisible, isRecording, streamRef,
          isFirstRun, deepgramServiceRef, audioChunkQueueRef,
          isProcessingChunkRef, isSpeakingRef, startPc, connHandlers,
          simliConn, services, pendingStops, micOpen, timer, tasks, sink,
          session, stopped, confirmed, greeted, work, last, userIdRef,
          posted, call>>

uiVars == <<isLoading, error, isAvatarVisible, isRecording>>
lifeVars == <<streamRef, deepgramServiceRef, startPc, connHandlers, simliConn,
              services, pendingStops, micOpen, session, stopped>>
queueVars == <<audioChunkQueueRef, isProcessingChunkRef, sink>>

NoTask == [pc |-> "none", kind |-> "none", samples |-> 0]

Min(a, b) == IF a < b THEN a ELSE b

\* the ids not yet handed out, lowest first
FreeTasks == {t \in TaskIds : tasks[t].pc = "none"}
FreeServices == {s \in ServiceIds : services[s] = "none"}
LowestOf(S) == CHOOSE x \in S : \A y \in S : x <= y

\* `video_user_${Date.now()}_${random}`: the identifiers are opaque, and
\* the one generated by the first render is called 1 here
FirstUserId == 1

\* the component after its first render
Mounted ==
  /\ isLoading = FALSE
  /\ error = ""
  /\ isAvatarVisible = FALSE
  /\ isRecording = FALSE
  /\ streamRef = 0
  /\ isFirstRun = TRUE
  /\ deepgramServiceRef = 0
  /\ audioChunkQueueRef = <<>>
  /\ isProcessingChunkRef = FALSE
  /\ isSpeakingRef = FALSE
  /\ startPc = [s \in StartIds |-> "none"]
  /\ connHandlers = 0
  /\ simliConn = FALSE
  /\ services = [s \in ServiceIds |-> "none"]
  /\ pendingStops = [s \in ServiceIds |-> 0]
  /\ micOpen = {}
  /\ timer = "none"
  /\ tasks = [t \in TaskIds |-> NoTask]
  /\ sink = <<>>
  /\ session = 0
  /\ stopped = FALSE
  /\ confirmed = {}
  /\ greeted = [s \in StartIds |-> 0]
  /\ work = 0
  /\ last = [op |-> "init", id |-> 0, note |-> ""]
  /\ userIdRef = FirstUserId
  /\ posted = <<>>

\* no helper function is called on its own while the component runs
NoCall == [fn |-> "none", pc |-> "none"]

Init == Mounted /\ call = NoCall

\* a step that is not counted in MaxWork, and one that is
Step(op, id, note) ==
  /\ last' = [op |-> op, id |-> id, note |-> note]
  /\ UNCHANGED <<work, userIdRef, posted, call>>

Counted(op, id, note) ==
  /\ work < MaxWork
  /\ work' = work + 1
  /\ last' = [op |-> op, id |-> id, note |-> note]
  /\ UNCHANGED <<userIdRef, call>>

Started(id) ==
  /\ work + 2 <= MaxWork
  /\ work' = work + 2
  /\ last' = [op |-> "handleStart", id |-> id, note |-> ""]
  /\ UNCHANGED <<userIdRef, posted, call>>

\* ---- chunk queue and sink (processBackendResponse, processNextAudioChunk)

\* a resampler that returns as many samples as it is given
SameLength(n) == n

\* newLength of downsampleAudio for the rates used by the pipeline:
\* Math.floor(audioData.length / (inputSampleRate / outputSampleRate))
DownsampledLength(n) == (n * OutputRate) \div InputRate

\* a chunking loop whose stride is one sample too long
RECURSIVE PushChunksSkipping(_, _, _, _)
PushChunksSkipping(q, reply, i, length) ==
  IF i < length
  THEN PushChunksSkipping(Append(q, [reply |-> reply, off |-> i,
                                     len |-> Min(ChunkSize, length - i)]),
                          reply, i + ChunkSize + 1, length)
  ELSE q

\* for (i = 0; i < length; i += chunkSize) queue.push(slice(i, i + chunkSize))
\* A chunk is identified by its reply, its offset and its sample count.
RECURSIVE PushChunks(_, _, _, _)
PushChunks(q, reply, i, length) ==
  IF i < length
  THEN PushChunks(Append(q, [reply |-> reply, off |-> i,
                             len |-> Min(ChunkSize, length - i)]),
                  reply, i + ChunkSize, length)
  ELSE q

\* a drain that hands over the head chunk and does not go on to the next
ProcessOneChunk(q, processing, snk) ==
  IF Len(q) > 0 /\ ~processing
  THEN [queue |-> Tail(q), processing |-> FALSE, sink |-> Append(snk, Head(q))]
  ELSE [queue |-> q, processing |-> processing, sink |-> snk]

\* a drain that does not look at the in-flight flag
RECURSIVE DrainIgnoringFlag(_, _, _)
DrainIgnoringFlag(q, processing, snk) ==
  IF Len(q) > 0
  THEN DrainIgnoringFlag(Tail(q), FALSE, Append(snk, Head(q)))
  ELSE [queue |-> q, processing |-> processing, sink |-> snk]

\* processNextAudioChunk: pop the head, hand it to the sink, recurse
RECURSIVE ProcessNextAudioChunk(_, _, _)
ProcessNextAudioChunk(q, processing, snk) ==
  IF Len(q) > 0 /\ ~processing
  THEN ProcessNextAudioChunk(Tail(q), FALSE, Append(snk, Head(q)))
  ELSE [queue |-> q, processing |-> processing, sink |-> snk]

\* an enqueue that leaves the drain to a later step
StartProcessingLater(q, processing, snk) ==
  [queue |-> q, processing |-> processing, sink |-> snk]

\* if (!isProcessingChunkRef.current) processNextAudioChunk();
StartProcessing(q, processing, snk) ==
  IF ~processing
  THEN ProcessNextAudioChunk(q, processing, snk)
  ELSE [queue |-> q, processing |-> processing, sink |-> snk]

\* ---- the reply chain (processBackendResponse) ---------------------------

\* a reply that issues the synthesis request and leaves the flag as it is
BeginReplyUnflagged(t, kind) ==
  /\ UNCHANGED isSpeakingRef
  /\ tasks' = [tasks EXCEPT ![t] = [pc |-> "tts", kind |-> kind, samples |-> 0]]

\* processBackendResponse up to `await textToSpeech`: the flag is raised and
\* the synthesis request is issued
BeginReply(t, kind) ==
  /\ isSpeakingRef' = TRUE
  /\ tasks' = [tasks EXCEPT ![t] = [pc |-> "tts", kind |-> kind, samples |-> 0]]

\* a catch block that leaves the speaking flag as it is
ReplyCatchKeepsSpeaking(t) ==
  /\ UNCHANGED isSpeakingRef
  /\ tasks' = [tasks EXCEPT ![t].pc = "done"]

\* the catch block of processBackendResponse
ReplyCatch(t) ==
  /\ isSpeakingRef' = FALSE
  /\ tasks' = [tasks EXCEPT ![t].pc = "done"]

\* a reply that keeps the speaking flag raised after its enqueue, as if it
\* were waiting for the playback to end
TtsAudioKeepsSpeaking(t, n) ==
  /\ tasks[t].pc = "tts"
  /\ LET q == PushChunks(audioChunkQueueRef, t, 0, DownsampledLength(n))
         r == StartProcessing(q, isProcessingChunkRef, sink)
     IN  /\ audioChunkQueueRef' = r.queue
         /\ isProcessingChunkRef' = r.processing
         /\ sink' = r.sink
  /\ tasks' = [tasks EXCEPT ![t].pc = "played",
                            ![t].samples = DownsampledLength(n)]
  /\ Step("ttsAudio", t, "ok")
  /\ UNCHANGED <<uiVars, lifeVars, isFirstRun, timer, confirmed, greeted,
                 isSpeakingRef>>

\* textToSpeech resolved with a buffer of n samples (fetch and arrayBuffer
\* both succeeded; nothing is written between the two awaits, so they are
\* one suspension here): downsample, chunk, enqueue, drain, lower the flag
TtsAudio(t, n) ==
  /\ tasks[t].pc = "tts"
  /\ LET q == PushChunks(audioChunkQueueRef, t, 0, DownsampledLength(n))
         r == StartProcessing(q, isProcessingChunkRef, sink)
     IN  /\ audioChunkQueueRef' = r.queue
         /\ isProcessingChunkRef' = r.processing
         /\ sink' = r.sink
  /\ isSpeakingRef' = FALSE
  /\ tasks' = [tasks EXCEPT ![t].pc = "played",
                            ![t].samples = DownsampledLength(n)]
  /\ Step("ttsAudio", t, "ok")
  /\ UNCHANGED <<uiVars, lifeVars, isFirstRun, timer, confirmed, greeted>>

\* textToSpeech threw (fetch rejected, the answer was not ok, or arrayBuffer
\* rejected), or the Int16Array view of an odd-sized buffer did:
\* processBackendResponse catches it and returns normally
TtsFail(t) ==
  /\ tasks[t].pc = "tts"
  /\ ReplyCatch(t)
  /\ Step("ttsAudio", t, "error")
  /\ UNCHANGED <<uiVars, lifeVars, queueVars, isFirstRun, timer, confirmed,
                 greeted>>

\* ---- onTranscription -----------------------------------------------------

\* a threshold test that lets the boundary value through
QualifiesAtThreshold(e) == e.isFinal /\ e.confidence >= ConfThreshold

\* if (result.isFinal && result.confidence > 0.7)
Qualifies(e) == e.isFinal /\ e.confidence > ConfThreshold

\* a handler without the barge-in test
NeverSpeaking == FALSE

\* if (isSpeakingRef.current) return;
AvatarSpeaking == isSpeakingRef

\* a request that carries an identifier made anew for the session
SessionUserId == userIdRef + session

\* userId: userIdRef.current, userName: userIdRef.current
RequestUserId == userIdRef

\* the handler up to its first await: a qualifying event that is not
\* suppressed issues the backend request (axios.post) and suspends
OnTranscription(s, e) ==
  /\ services[s] = "connected"
  /\ IF Qualifies(e)
     THEN IF AvatarSpeaking
          THEN /\ UNCHANGED tasks
               /\ Step("onTranscription", 0, "dropped")
          ELSE /\ work < MaxWork
               /\ LET t == LowestOf(FreeTasks)
                  IN  /\ tasks' = [tasks EXCEPT
                                     ![t] = [pc |-> "backend", kind |-> "turn",
                                             samples |-> 0]]
                      /\ posted' = Append(posted, RequestUserId)
                      /\ Counted("onTranscription", t, "dispatched")
     ELSE /\ UNCHANGED tasks
          /\ IF e.isFinal
             THEN Step("onTranscription", e.confidence, "ignored")
             ELSE Step("onTranscription", 0, "interim")
  /\ UNCHANGED <<uiVars, lifeVars, queueVars, isFirstRun, isSpeakingRef, timer,
                 confirmed, greeted>>

\* sendMessageToBackend resolved (with the reply or a fallback sentence):
\* onTranscription goes straight on into processBackendResponse
BackendReply(t) ==
  /\ tasks[t].pc = "backend"
  /\ BeginReply(t, "turn")
  /\ Step("backendReply", t, "ok")
  /\ UNCHANGED <<uiVars, lifeVars, queueVars, isFirstRun, timer, confirmed,
                 greeted>>

\* axios.post rejected, or reading the text of the last element threw:
\* rethrown, caught by onTranscription's catch
BackendFail(t) ==
  /\ tasks[t].pc = "backend"
  /\ tasks' = [tasks EXCEPT ![t].pc = "done"]
  /\ error' = "Failed to process your message. Please try again."
  /\ Step("backendReply", t, "error")
  /\ UNCHANGED <<isLoading, isAvatarVisible, isRecording, lifeVars, queueVars,
                 isFirstRun, isSpeakingRef, timer, confirmed, greeted>>

\* the setTimeout callback of onConnectionChange
GreetingTimeout ==
  /\ timer = "pending"
  /\ work < MaxWork
  /\ timer' = "fired"
  /\ LET t == LowestOf(FreeTasks)
     IN  /\ BeginReply(t, "greeting")
         /\ Counted("greetingTimeout", t, "ok")
         /\ UNCHANGED posted
  /\ UNCHANGED <<uiVars, lifeVars, queueVars, isFirstRun, confirmed, greeted>>

\* ---- session lifecycle ---------------------------------------------------

\* service states in which stop() still has a stream to close
Live == {"starting", "connected", "disconnected"}

\* streamRef.current.getTracks().forEach(stop); streamRef.current = null;
\* setIsRecording(false)
ReleaseMicrophone ==
  /\ micOpen' = micOpen \ {streamRef}
  /\ streamRef' = 0
  /\ isRecording' = FALSE

\* n synchronous calls of stopRecording, each up to its first await: with a
\* service in deepgramServiceRef every call suspends in `await stop()`,
\* without one every call runs through and releases the microphone
StopRecording(n) ==
  IF deepgramServiceRef # 0
  THEN /\ pendingStops' = [pendingStops EXCEPT ![deepgramServiceRef] = @ + n]
       /\ services' = [services EXCEPT ![deepgramServiceRef] =
                         IF @ \in Live THEN "stopping" ELSE @]
       /\ UNCHANGED <<streamRef, micOpen, isRecording, deepgramServiceRef>>
  ELSE /\ ReleaseMicrophone
       /\ UNCHANGED <<pendingStops, services, deepgramServiceRef>>

\* stopRecording after `await deepgramServiceRef.current.stop()` settled
StopSettles(s, ok) ==
  /\ pendingStops[s] > 0
  /\ pendingStops' = [pendingStops EXCEPT ![s] = @ - 1]
  /\ IF ok
     THEN /\ deepgramServiceRef' = 0
          /\ services' = [services EXCEPT ![s] = "stopped"]
     ELSE UNCHANGED <<deepgramServiceRef, services>>
  /\ ReleaseMicrophone
  /\ Step("stopSettles", s, IF ok THEN "ok" ELSE "error")
  /\ UNCHANGED <<isLoading, error, isAvatarVisible, startPc, connHandlers,
                 simliConn, session, stopped, queueVars, isFirstRun,
                 isSpeakingRef, timer, tasks, confirmed, greeted>>

\* handleStart up to `await requestMicrophonePermission()`; the Start button
\* is rendered while the avatar is hidden and disabled while loading
HandleStart ==
  /\ ~isLoading /\ ~isAvatarVisible
  /\ isLoading' = TRUE
  /\ error' = ""
  /\ session' = session + 1
  /\ startPc' = [startPc EXCEPT ![session + 1] = "mic"]
  /\ stopped' = FALSE
  /\ Started(session + 1)
  /\ UNCHANGED <<isAvatarVisible, isRecording, streamRef, deepgramServiceRef,
                 connHandlers, simliConn, services, pendingStops, micOpen,
                 queueVars, isFirstRun, isSpeakingRef, timer, tasks, confirmed,
                 greeted>>

\* getUserMedia resolved: the stream is stored, the avatar client is
\* initialized and simliClient.start() is awaited
MicrophoneGranted(s) ==
  /\ startPc[s] = "mic"
  /\ streamRef' = s
  /\ micOpen' = micOpen \cup {s}
  /\ startPc' = [startPc EXCEPT ![s] = "simli"]
  /\ Step("microphone", s, "granted")
  /\ UNCHANGED <<uiVars, deepgramServiceRef, connHandlers, simliConn, services,
                 pendingStops, session, stopped, queueVars, isFirstRun,
                 isSpeakingRef, timer, tasks, confirmed, greeted>>

\* a handleStart that reports the refusal and goes on to start the client
MicrophoneDeniedGoesOn(s) ==
  /\ startPc[s] = "mic"
  /\ startPc' = [startPc EXCEPT ![s] = "simli"]
  /\ error' = "Error accessing microphone. Please check your permissions."
  /\ Step("microphone", s, "denied")
  /\ UNCHANGED <<isLoading, isAvatarVisible, isRecording, streamRef,
                 deepgramServiceRef, connHandlers, simliConn, services,
                 pendingStops, micOpen, session, stopped, queueVars,
                 isFirstRun, isSpeakingRef, timer, tasks, confirmed, greeted>>

\* getUserMedia rejected: requestMicrophonePermission reports and returns
\* false, handleStart throws into its own catch
MicrophoneDenied(s) ==
  /\ startPc[s] = "mic"
  /\ startPc' = [startPc EXCEPT ![s] = "done"]
  /\ error' = "Error starting interaction: Microphone permission denied"
  /\ isLoading' = FALSE
  /\ Step("microphone", s, "denied")
  /\ UNCHANGED <<isAvatarVisible, isRecording, streamRef, deepgramServiceRef,
                 connHandlers, simliConn, services, pendingStops, micOpen,
                 session, stopped, queueVars, isFirstRun, isSpeakingRef, timer,
                 tasks, confirmed, greeted>>

\* simliClient.start() settled: on success eventListenerSimli registers one
\* more "connected" and one more "disconnected" listener on the client
SimliStart(s, ok) ==
  /\ startPc[s] = "simli"
  /\ IF ok
     THEN /\ startPc' = [startPc EXCEPT ![s] = "done"]
          /\ connHandlers' = connHandlers + 1
          /\ simliConn' = IF stopped THEN simliConn ELSE TRUE
          /\ UNCHANGED <<error, isLoading>>
     ELSE /\ startPc' = [startPc EXCEPT ![s] = "done"]
          /\ error' = "Error starting interaction"
          /\ isLoading' = FALSE
          /\ UNCHANGED <<connHandlers, simliConn>>
  /\ Step("simliStart", s, IF ok THEN "ok" ELSE "error")
  /\ UNCHANGED <<isAvatarVisible, isRecording, streamRef, deepgramServiceRef,
                 services, pendingStops, micOpen, session, stopped, queueVars,
                 isFirstRun, isSpeakingRef, timer, tasks, confirmed, greeted>>

\* the n lowest free service ids
RECURSIVE Lowest(_, _)
Lowest(S, n) ==
  IF n = 0 \/ S = {} THEN {}
  ELSE {LowestOf(S)} \cup Lowest(S \ {LowestOf(S)}, n - 1)

\* simliClient emits "connected": every registered listener shows the
\* avatar and runs initializeSpeechRecognition up to `await start()`, each
\* creating a service of its own and storing it in deepgramServiceRef
SimliConnected ==
  /\ simliConn
  /\ connHandlers > 0
  /\ Cardinality(FreeServices) >= connHandlers
  /\ simliConn' = FALSE
  /\ isAvatarVisible' = TRUE
  /\ isLoading' = FALSE
  /\ LET new == Lowest(FreeServices, connHandlers)
     IN  /\ services' = [x \in ServiceIds |->
                           IF x \in new THEN "starting" ELSE services[x]]
         /\ deepgramServiceRef' = CHOOSE x \in new : \A y \in new : y <= x
  /\ Step("simliConnected", connHandlers, "")
  /\ UNCHANGED <<error, isRecording, streamRef, startPc, connHandlers,
                 pendingStops, micOpen, session, stopped, queueVars,
                 isFirstRun, isSpeakingRef, timer, tasks, confirmed, greeted>>

\* simliClient emits "disconnected": every registered listener calls
\* stopRecording
SimliDisconnected ==
  /\ connHandlers > 0
  /\ StopRecording(connHandlers)
  /\ Counted("simliDisconnected", connHandlers, "")
  /\ UNCHANGED posted
  /\ UNCHANGED <<isLoading, error, isAvatarVisible, startPc, connHandlers,
                 simliConn, session, stopped, queueVars, isFirstRun,
                 isSpeakingRef, timer, tasks, confirmed, greeted>>

\* a handleStop that forgets to lower the speaking flag
HandleStopKeepsSpeaking ==
  /\ isLoading' = FALSE
  /\ error' = ""
  /\ StopRecording(1)
  /\ isAvatarVisible' = FALSE
  /\ simliConn' = FALSE
  /\ audioChunkQueueRef' = <<>>
  /\ isProcessingChunkRef' = FALSE
  /\ stopped' = TRUE
  /\ Counted("handleStop", session, "")
  /\ UNCHANGED posted
  /\ UNCHANGED <<startPc, connHandlers, session, sink, isFirstRun, timer,
                 tasks, confirmed, greeted, isSpeakingRef>>

\* handleStop, which runs to its end without awaiting anything
HandleStop ==
  /\ isLoading' = FALSE
  /\ error' = ""
  /\ StopRecording(1)
  /\ isAvatarVisible' = FALSE
  /\ simliConn' = FALSE
  /\ audioChunkQueueRef' = <<>>
  /\ isProcessingChunkRef' = FALSE
  /\ isSpeakingRef' = FALSE
  /\ stopped' = TRUE
  /\ Counted("handleStop", session, "")
  /\ UNCHANGED posted
  /\ UNCHANGED <<startPc, connHandlers, session, sink, isFirstRun, timer,
                 tasks, confirmed, greeted>>

\* ---- the transcription service and its callbacks ------------------------

\* onConnectionChange(connected)
OnConnectionChange(connected) ==
  IF connected
  THEN /\ isRecording' = TRUE
       /\ isAvatarVisible' = TRUE
       /\ confirmed' = confirmed \cup {session}
       /\ IF isFirstRun
          THEN /\ isFirstRun' = FALSE
               /\ timer' = "pending"
               /\ greeted' = [greeted EXCEPT ![session] = @ + 1]
          ELSE UNCHANGED <<isFirstRun, timer, greeted>>
  ELSE /\ isRecording' = FALSE
       /\ UNCHANGED <<isAvatarVisible, confirmed, isFirstRun, timer, greeted>>

\* the service's stream opens (or reopens) and it confirms the connection
DeepgramConnected(s) ==
  /\ services[s] \in {"starting", "disconnected"}
  /\ services' = [services EXCEPT ![s] = "connected"]
  /\ OnConnectionChange(TRUE)
  /\ Step("deepgramConnected", s, "")
  /\ UNCHANGED <<isLoading, error, streamRef, deepgramServiceRef, startPc,
                 connHandlers, simliConn, pendingStops, micOpen, session,
                 stopped, queueVars, isSpeakingRef, tasks>>

\* the service's stream drops
DeepgramDisconnected(s) ==
  /\ services[s] = "connected"
  /\ services' = [services EXCEPT ![s] = "disconnected"]
  /\ OnConnectionChange(FALSE)
  /\ Step("deepgramDisconnected", s, "")
  /\ UNCHANGED <<isLoading, error, streamRef, deepgramServiceRef, startPc,
                 connHandlers, simliConn, pendingStops, micOpen, session,
                 stopped, queueVars, isSpeakingRef, tasks>>

\* `await deepgramServiceRef.current.start()` rejects: the catch block of
\* initializeSpeechRecognition reports it
DeepgramStartFail(s) ==
  /\ services[s] = "starting"
  /\ services' = [services EXCEPT ![s] = "stopped"]
  /\ error' = "Failed to initialize speech recognition"
  /\ Step("deepgramStart", s, "error")
  /\ UNCHANGED <<isLoading, isAvatarVisible, isRecording, streamRef,
                 deepgramServiceRef, startPc, connHandlers, simliConn,
                 pendingStops, micOpen, session, stopped, queueVars,
                 isFirstRun, isSpeakingRef, timer, tasks, confirmed, greeted>>

Next ==
  \/ HandleStart
  \/ \E s \in StartIds : MicrophoneGranted(s)
  \/ \E s \in StartIds : MicrophoneDenied(s)
  \/ \E s \in StartIds, ok \in BOOLEAN : SimliStart(s, ok)
  \/ SimliConnected
  \/ SimliDisconnected
  \/ HandleStop
  \/ \E s \in ServiceIds, ok \in BOOLEAN : StopSettles(s, ok)
  \/ \E s \in ServiceIds : DeepgramConnected(s)
  \/ \E s \in ServiceIds : DeepgramDisconnected(s)
  \/ \E s \in ServiceIds : DeepgramStartFail(s)
  \/ \E s \in ServiceIds, e \in TranscriptEvents : OnTranscription(s, e)
  \/ \E t \in TaskIds : BackendReply(t)
  \/ \E t \in TaskIds : BackendFail(t)
  \/ GreetingTimeout
  \/ \E t \in TaskIds, n \in PcmLengths : TtsAudio(t, n)
  \/ \E t \in TaskIds : TtsFail(t)

Spec == Init /\ [][Next]_vars

\* every synthesis request eventually returns a buffer or fails: fetch
\* settles, and the continuation of processBackendResponse then runs
SynthesisSettles(t) == TtsFail(t) \/ \E n \in PcmLengths : TtsAudio(t, n)

SpecSettling == Spec /\ \A t \in TaskIds : WF_vars(SynthesisSettles(t))

\* ---- the helper functions called on their own ----------------------------
\* `call` holds one call: the function, its arguments and, once it has
\* returned, its result.  The component itself stays as mounted.

\* sample counts of the buffers handed to the helpers
ArgLengths == {0, 1, 4799, 4800, 4801, 9600, 9601}

\* the queue after the chunks of one or two replies were pushed
ArgQueues ==
  {PushChunks(PushChunks(<<>>, 1, 0, a), 2, 0, b) : a, b \in ArgLengths}

\* what the sink has received before the call
ArgSinks == {<<>>, <<[reply |-> 0, off |-> 0, len |-> ChunkSize]>>}

ProcessNextAudioChunkCalls ==
  [fn : {"processNextAudioChunk"}, pc : {"called"}, queue : ArgQueues,
   processing : BOOLEAN, sink : ArgSinks]

\* processNextAudioChunk() runs on the refs of the call
CallProcessNextAudioChunk ==
  /\ call.fn = "processNextAudioChunk"
  /\ call.pc = "called"
  /\ call' = [fn |-> call.fn, pc |-> "returned", queue |-> call.queue,
              processing |-> call.processing, sink |-> call.sink,
              out |-> ProcessNextAudioChunk(call.queue, call.processing,
                                            call.sink)]
  /\ UNCHANGED <<uiVars, lifeVars, queueVars, isFirstRun, isSpeakingRef,
                 timer, tasks, confirmed, greeted, work, last, userIdRef,
                 posted>>

\* ---- IEEE 754 double arithmetic of downsampleAudio ----------------------
\* JavaScript numbers are binary64.  The two divisions that decide the
\* length of the result are followed here bit by bit; the naturals they
\* need exceed the range of the model checker's integers and are kept as
\* sequences of digits, least significant first.
Base == 2 ^ 12

RECURSIVE MulCarry(_, _, _)
MulCarry(a, c, carry) ==
  IF a = <<>>
  THEN IF carry = 0 THEN <<>>
       ELSE <<carry % Base>> \o MulCarry(<<>>, c, carry \div Base)
  ELSE LET v == Head(a) * c + carry
       IN  <<v % Base>> \o MulCarry(Tail(a), c, v \div Base)

\* a * c and a + c for a small natural c
Times(a, c) == MulCarry(a, c, 0)
Plus(a, c) == MulCarry(a, 1, c)
Nat2Big(n) == Plus(<<>>, n)

\* a * 2^k
RECURSIVE ShiftLeft(_, _)
ShiftLeft(a, k) ==
  IF k = 0 THEN a
  ELSE IF k >= 12 THEN ShiftLeft(<<0>> \o a, k - 12)
  ELSE Times(a, 2 ^ k)

DigitOf(a, i) == IF i <= Len(a) THEN a[i] ELSE 0

\* -1, 0 or 1 as a is below, equal to or above b
RECURSIVE CompareFrom(_, _, _)
CompareFrom(a, b, i) ==
  IF i = 0 THEN 0
  ELSE IF DigitOf(a, i) < DigitOf(b, i) THEN -1
  ELSE IF DigitOf(a, i) > DigitOf(b, i) THEN 1
  ELSE CompareFrom(a, b, i - 1)

Compare(a, b) == CompareFrom(a, b, IF Len(a) > Len(b) THEN Len(a) ELSE Len(b))

\* a - b for a >= b
RECURSIVE MinusFrom(_, _, _, _)
MinusFrom(a, b, i, borrow) ==
  IF i > Len(a) THEN <<>>
  ELSE LET v == a[i] - DigitOf(b, i) - borrow
       IN  IF v < 0 THEN <<v + Base>> \o MinusFrom(a, b, i + 1, 1)
           ELSE <<v>> \o MinusFrom(a, b, i + 1, 0)

Minus(a, b) == MinusFrom(a, b, 1, 0)

\* largest e with d * 2^e <= n, for 1 <= d <= n
RECURSIVE Exponent(_, _)
Exponent(n, d) == IF 2 * d <= n THEN 1 + Exponent(n, 2 * d) ELSE 0

\* 13 * k more bits of the quotient of a long division by d < 2^18: acc
\* holds the bits found so far, r < d the remainder
RECURSIVE QuotientBits(_, _, _, _)
QuotientBits(acc, r, d, k) ==
  IF k = 0 THEN [bits |-> acc, rem |-> r]
  ELSE QuotientBits(Plus(Times(acc, 2 ^ 13), (r * 2 ^ 13) \div d),
                    (r * 2 ^ 13) % d, d, k - 1)

\* const ratio = inputSampleRate / outputSampleRate, for rates with
\* inputSampleRate > outputSampleRate >= 1: the double nearest to the
\* quotient (ties to the even significand), as significand * 2^(exp - 52)
Ratio(inputSampleRate, outputSampleRate) ==
  LET e == Exponent(inputSampleRate, outputSampleRate)
      d == outputSampleRate * 2 ^ e
      q == QuotientBits(<<1>>, inputSampleRate - d, d, 4)
      up == 2 * q.rem > d \/ (2 * q.rem = d /\ DigitOf(q.bits, 1) % 2 = 1)
  IN  [significand |-> IF up THEN Plus(q.bits, 1) ELSE q.bits, exp |-> e]

\* largest e with 2^e <= k, and whether k is a power of two
Log2(k) == Exponent(k, 1)
IsPowerOfTwo(k) == 2 ^ Log2(k) = k

\* largest k in lo..hi with k * m <= n, given lo * m <= n < (hi + 1) * m
RECURSIVE FloorQuotient(_, _, _, _)
FloorQuotient(n, m, lo, hi) ==
  IF lo = hi THEN lo
  ELSE LET mid == (lo + hi + 1) \div 2
       IN  IF Compare(Times(m, mid), n) <= 0
           THEN FloorQuotient(n, m, mid, hi)
           ELSE FloorQuotient(n, m, lo, mid - 1)

\* Math.floor of the double nearest to n / m, for naturals n and m > 0
\* whose quotient is at most hi < 2^31.  The quotient lies between two
\* neighbouring integers k and k + 1; rounded to a double it is k + 1
\* exactly when it is within half a unit in the last place below k + 1.
FloorOfDouble(n, m, hi) ==
  LET k == FloorQuotient(n, m, 0, hi)
      short == Minus(Times(m, k + 1), n)          \* (k + 1 - quotient) * m
      halfUlp == IF IsPowerOfTwo(k + 1) THEN 54 - Log2(k + 1)
                 ELSE 53 - Log2(k + 1)            \* as a power of 1/2
  IN  IF Compare(Times(m, k), n) = 0 THEN k
      ELSE IF Compare(ShiftLeft(short, halfUlp), m) <= 0 THEN k + 1
      ELSE k

\* const newLength = Math.floor(audioData.length / ratio)
\* a result that is one sample longer than Math.floor makes it
NewLengthPlusOne(length, inputSampleRate, outputSampleRate) ==
  LET ratio == Ratio(inputSampleRate, outputSampleRate)
  IN  FloorOfDouble(ShiftLeft(Nat2Big(length), 52),
                    ShiftLeft(ratio.significand, ratio.exp), length) + 1

NewLength(length, inputSampleRate, outputSampleRate) ==
  LET ratio == Ratio(inputSampleRate, outputSampleRate)
  IN  FloorOfDouble(ShiftLeft(Nat2Big(length), 52),
                    ShiftLeft(ratio.significand, ratio.exp), length)

RECURSIVE Big2Nat(_)
Big2Nat(a) == IF a = <<>> THEN 0 ELSE Head(a) + Base * Big2Nat(Tail(a))

\* a \div 2^k, for a result below 2^31
RECURSIVE ShiftRight(_, _)
ShiftRight(a, k) ==
  IF a = <<>> THEN 0
  ELSE IF k >= 12 THEN ShiftRight(Tail(a), k - 12)
  ELSE Big2Nat(a) \div 2 ^ k

\* const position = i * ratio; index = Math.floor(position);
\* fraction = position - index.  The index is that of the rounded product;
\* the fraction is kept to 14 binary places (in units of 1 / 2^14).
Position(i, ratio) ==
  LET product == Times(ratio.significand, i)
      unit == ShiftLeft(<<1>>, 52 - ratio.exp)
      index == FloorOfDouble(product, unit, i * 2 ^ (ratio.exp + 1))
      below == Compare(Times(unit, index), product) <= 0
  IN  [index |-> index,
       fraction |-> IF below
                    THEN ShiftRight(Minus(product, Times(unit, index)),
                                    38 - ratio.exp)
                    ELSE 0]

\* 16-bit samples of a buffer: a ramp, a fast sawtooth, and silence
Waveforms == {1, 7919, 0}
Int16(v) == ((v + 32768) % 65536) - 32768
SampleAt(w, i) == Int16(w * i)
Buffer(w, n) == [i \in 1..n |-> SampleAt(w, i - 1)]
ArgBuffers == {Buffer(w, n) : w \in Waveforms, n \in ArgLengths}

\* ---- applyLowPassFilter ---------------------------------------------------
\* The coefficients are real numbers in the source (computed in binary64,
\* stored as binary32).  Here they are fixed-point numbers with 14 binary
\* places: a value v stands for v / One, and every operation rounds to the
\* nearest such number.  Frequencies are given in hundredths of a hertz so
\* that outputSampleRate * 0.45 is a whole number.
NumberOfTaps == 31
Middle == (NumberOfTaps - 1) \div 2
One == 2 ^ 14
HalfPi == 25736      \* Math.PI / 2
Hamming54 == 8847    \* 0.54
Hamming46 == 7537    \* 0.46

\* a / b rounded to the nearest integer, for b # 0
RoundDiv(a, b) ==
  IF b < 0 THEN ((0 - a) + (0 - b) \div 2) \div (0 - b)
  ELSE (a + b \div 2) \div b

RECURSIVE GCD(_, _)
GCD(a, b) == IF b = 0 THEN a ELSE GCD(b, a % b)

\* Math.sin(y / One) * One for 0 <= y <= HalfPi: the Taylor series up to
\* the term of degree nine
SinQuarter(y) ==
  LET y2 == RoundDiv(y * y, One)
      t4 == One - RoundDiv(y2, 72)
      t3 == One - RoundDiv(RoundDiv(y2 * t4, One), 42)
      t2 == One - RoundDiv(RoundDiv(y2 * t3, One), 20)
      t1 == One - RoundDiv(RoundDiv(y2 * t2, One), 6)
  IN  RoundDiv(y * t1, One)

\* Math.sin(2 * Math.PI * p / q) * One for q > 0: the angle is reduced to
\* the first quadrant, a counting quarter turns in units of 1 / q
SinTurns(p, q) ==
  LET a == (4 * (p % q)) % (4 * q)
      b == IF a >= 2 * q THEN a - 2 * q ELSE a
      c == IF b > q THEN 2 * q - b ELSE b
      v == SinQuarter(RoundDiv(HalfPi * c, q))
  IN  IF a >= 2 * q THEN 0 - v ELSE v

\* Math.cos(2 * Math.PI * p / q) * One
CosTurns(p, q) == SinTurns(4 * p + q, 4 * q)

\* 0.54 - 0.46 * Math.cos((2 * Math.PI * i) / (numberOfTaps - 1))
HammingWindow(i) ==
  Hamming54 - RoundDiv(Hamming46 * CosTurns(i, NumberOfTaps - 1), One)

\* coefficients[i] before the normalization, for fc = p / q with q > 0
Coefficient(i, p, q) ==
  LET sinc == IF i = Middle
              THEN RoundDiv(4 * HalfPi * p, q)
              ELSE RoundDiv(SinTurns(p * (i - Middle), q), i - Middle)
  IN  RoundDiv(sinc * HammingWindow(i), One)

\* f[lo] + ... + f[hi]
RECURSIVE SumOver(_, _, _)
SumOver(f, lo, hi) ==
  IF lo > hi THEN 0
  ELSE IF lo = hi THEN f[lo]
  ELSE SumOver(f, lo, (lo + hi) \div 2) + SumOver(f, (lo + hi) \div 2 + 1, hi)

SumOf(seq) == SumOver(seq, 1, Len(seq))

\* a kernel that is left as the window made it
Unnormalized(c) == [nan |-> FALSE, taps |-> c]

\* coefficients[i] /= sum: a sum of zero turns every coefficient into NaN
\* (0 / 0) or an infinity
Normalize(c) ==
  LET sum == SumOf(c)
  IN  IF sum = 0 THEN [nan |-> TRUE, taps |-> c]
      ELSE [nan |-> FALSE,
            taps |-> [j \in 1..Len(c) |-> RoundDiv(c[j] * One, sum)]]

\* the normalized coefficients for a cutoff in hundredths of a hertz;
\* taps[j + 1] is coefficients[j].  A sample rate of zero makes fc infinite
\* or NaN, and every coefficient NaN.
Coefficients(cutoffFreq, sampleRate) ==
  IF sampleRate = 0
  THEN [nan |-> TRUE, taps |-> [j \in 1..NumberOfTaps |-> 0]]
  ELSE LET g == GCD(cutoffFreq, 100 * sampleRate)
           p == cutoffFreq \div g
           q == (100 * sampleRate) \div g
       IN  Normalize([j \in 1..NumberOfTaps |-> Coefficient(j - 1, p, q)])

\* a rounding to the nearest integer whose ties go away from zero
RoundHalfAwayFromZero(v) ==
  IF v < 0 THEN 0 - (((0 - v) + One \div 2) \div One)
  ELSE (v + One \div 2) \div One

\* Math.round(v / One): the nearest integer, a tie going to the larger one
MathRound(v) == (v + One \div 2) \div One

\* the sum of the inner loop for output sample i (times One): the taps that
\* fall outside the buffer contribute nothing
FilterSum(data, taps, i) ==
  LET Term(j) == LET idx == i - j + Middle
                 IN  IF idx >= 0 /\ idx < Len(data)
                     THEN taps[j + 1] * data[idx + 1]
                     ELSE 0
  IN  SumOver([j \in 0..(NumberOfTaps - 1) |-> Term(j)], 0, NumberOfTaps - 1)

\* applyLowPassFilter: each output sample is the rounded sum of the taps
\* that fall inside the buffer, stored into an Int16Array; Math.round of
\* NaN is NaN, which an Int16Array stores as 0
ApplyLowPassFilter(data, cutoffFreq, sampleRate) ==
  LET k == Coefficients(cutoffFreq, sampleRate)
  IN  [i \in 1..Len(data) |->
         IF k.nan THEN 0 ELSE Int16(MathRound(FilterSum(data, k.taps, i - 1)))]

\* cutoff frequencies handed to applyLowPassFilter (hundredths of a hertz):
\* 0 Hz, 1 Hz, 3600 Hz, 7200 Hz (the pipeline's 16000 * 0.45) and 10800 Hz
CutoffFreqs == {0, 100, 360000, 720000, 1080000}

\* sample rates handed to the helpers
Rates == {16000, 24000, 44100, 48000}

CoefficientsCalls ==
  [fn : {"coefficients"}, pc : {"called"}, cutoffFreq : CutoffFreqs,
   sampleRate : Rates]

\* applyLowPassFilter up to the normalization of its coefficients
CallCoefficients ==
  /\ call.fn = "coefficients"
  /\ call.pc = "called"
  /\ call' = [fn |-> call.fn, pc |-> "returned", cutoffFreq |-> call.cutoffFreq,
              sampleRate |-> call.sampleRate,
              out |-> Coefficients(call.cutoffFreq, call.sampleRate)]
  /\ UNCHANGED <<uiVars, lifeVars, queueVars, isFirstRun, isSpeakingRef,
                 timer, tasks, confirmed, greeted, work, last, userIdRef,
                 posted>>

\* ---- downsampleAudio --------------------------------------------------------
\* filteredData[index], where reading past the end gives undefined, which an
\* Int16Array stores as 0
SampleOf(data, index) == IF index < Len(data) THEN data[index + 1] ELSE 0

\* the linear interpolation: result[i] for 0 <= i < newLength
Interpolated(filteredData, i, ratio) ==
  LET pos == Position(i, ratio)
      a == SampleOf(filteredData, pos.index)
      b == SampleOf(filteredData, pos.index + 1)
  IN  IF pos.index + 1 < Len(filteredData)
      THEN Int16(MathRound(a * One + pos.fraction * (b - a)))
      ELSE a

\* the part of downsampleAudio that follows the two tests of the rates
Resample(audioData, inputSampleRate, outputSampleRate) ==
  LET filteredData == ApplyLowPassFilter(audioData, 45 * outputSampleRate,
                                         inputSampleRate)
      ratio == Ratio(inputSampleRate, outputSampleRate)
      newLength == NewLength(Len(audioData), inputSampleRate, outputSampleRate)
  IN  [kind |-> "return",
       value |-> [i \in 1..newLength |->
                    Interpolated(filteredData, i - 1, ratio)]]

\* a downsampleAudio that filters and interpolates at equal rates too
ResampleAtEqualRates(audioData, inputSampleRate, outputSampleRate) ==
  IF inputSampleRate < outputSampleRate
  THEN [kind |-> "throw", value |-> "Upsampling is not supported"]
  ELSE Resample(audioData, inputSampleRate, outputSampleRate)

\* a downsampleAudio that takes every pair of rates
ResampleAnyRates(audioData, inputSampleRate, outputSampleRate) ==
  IF inputSampleRate <= outputSampleRate
  THEN [kind |-> "return", value |-> audioData]
  ELSE Resample(audioData, inputSampleRate, outputSampleRate)

\* downsampleAudio(audioData, inputSampleRate, outputSampleRate): what it
\* returns, or what it throws
DownsampleAudio(audioData, inputSampleRate, outputSampleRate) ==
  IF inputSampleRate = outputSampleRate
  THEN [kind |-> "return", value |-> audioData]
  ELSE IF inputSampleRate < outputSampleRate
  THEN [kind |-> "throw", value |-> "Upsampling is not supported"]
  ELSE Resample(audioData, inputSampleRate, outputSampleRate)

\* buffers handed to downsampleAudio
ResampleLengths == {0, 1, 35, 480}
ResampleBuffers == {Buffer(w, n) : w \in {1, 7919}, n \in ResampleLengths}

DownsampleAudioCalls ==
  [fn : {"downsampleAudio"}, pc : {"called"}, audioData : ResampleBuffers,
   inputSampleRate : Rates, outputSampleRate : Rates]

CallDownsampleAudio ==
  /\ call.fn = "downsampleAudio"
  /\ call.pc = "called"
  /\ call' = [fn |-> call.fn, pc |-> "returned", audioData |-> call.audioData,
              inputSampleRate |-> call.inputSampleRate,
              outputSampleRate |-> call.outputSampleRate,
              out |-> DownsampleAudio(call.audioData, call.inputSampleRate,
                                      call.outputSampleRate)]
  /\ UNCHANGED <<uiVars, lifeVars, queueVars, isFirstRun, isSpeakingRef,
                 timer, tasks, confirmed, greeted, work, last, userIdRef,
                 posted>>

\* processBackendResponse from the Int16Array view of the synthesized audio
\* to its end, on refs of its own; the two rates, the literals 24000 and
\* 16000 in the source, are arguments.  The speaking flag was raised before
\* the synthesis was awaited; an exception of downsampleAudio is caught.
AfterSynthesis(audioData, inputSampleRate, outputSampleRate, q, processing, snk) ==
  LET d == DownsampleAudio(audioData, inputSampleRate, outputSampleRate)
      r == StartProcessing(PushChunks(q, 1, 0, Len(d.value)), processing, snk)
  IN  IF d.kind = "throw"
      THEN [queue |-> q, processing |-> processing, sink |-> snk,
            isSpeaking |-> FALSE, caught |-> TRUE]
      ELSE [queue |-> r.queue, processing |-> r.processing, sink |-> r.sink,
            isSpeaking |-> FALSE, caught |-> FALSE]

ProcessBackendResponseCalls ==
  [fn : {"processBackendResponse"}, pc : {"called"},
   audioData : ResampleBuffers, inputSampleRate : Rates,
   outputSampleRate : Rates, queue : {<<>>}, processing : BOOLEAN,
   sink : ArgSinks, isSpeaking : {TRUE}]

CallProcessBackendResponse ==
  /\ call.fn = "processBackendResponse"
  /\ call.pc = "called"
  /\ call' = [fn |-> call.fn, pc |-> "returned", audioData |-> call.audioData,
              inputSampleRate |-> call.inputSampleRate,
              outputSampleRate |-> call.outputSampleRate,
              queue |-> call.queue, processing |-> call.processing,
              sink |-> call.sink, isSpeaking |-> call.isSpeaking,
              out |-> AfterSynthesis(call.audioData, call.inputSampleRate,
                                     call.outputSampleRate, call.queue,
                                     call.processing, call.sink)]
  /\ UNCHANGED <<uiVars, lifeVars, queueVars, isFirstRun, isSpeakingRef,
                 timer, tasks, confirmed, greeted, work, last, userIdRef,
                 posted>>

\* TypedArray.prototype.slice(start, end) for 0 <= start <= end
Slice(buf, start, end) == SubSeq(buf, start + 1, Min(end, Len(buf)))

\* the samples of the chunks that the loop of processBackendResponse pushes
\* for the buffer: downsampledAudio.slice(i, i + chunkSize)
ChunkSamples(buf) ==
  LET q == PushChunks(<<>>, 1, 0, Len(buf))
  IN  [k \in 1..Len(q) |-> Slice(buf, q[k].off, q[k].off + ChunkSize)]

ChunkingCalls == [fn : {"chunking"}, pc : {"called"}, buffer : ArgBuffers]

\* lines 169-174 of processBackendResponse run on a buffer of their own
CallChunking ==
  /\ call.fn = "chunking"
  /\ call.pc = "called"
  /\ call' = [fn |-> call.fn, pc |-> "returned", buffer |-> call.buffer,
              out |-> ChunkSamples(call.buffer)]
  /\ UNCHANGED <<uiVars, lifeVars, queueVars, isFirstRun, isSpeakingRef,
                 timer, tasks, confirmed, greeted, work, last, userIdRef,
                 posted>>

\* the buffer that drives output sample Middle of the filter furthest up:
\* every sample is at the end of the 16-bit range its tap points to
LoudBuffer(cutoffFreq, sampleRate) ==
  LET k == Coefficients(cutoffFreq, sampleRate)
  IN  [n \in 1..NumberOfTaps |->
         IF k.taps[NumberOfTaps + 1 - n] < 0 THEN -32768 ELSE 32767]

\* buffers handed to applyLowPassFilter
FilterBuffers ==
  {Buffer(1, 35), Buffer(7919, 35), LoudBuffer(720000, 24000)}

ApplyLowPassFilterCalls ==
  [fn : {"applyLowPassFilter"}, pc : {"called"}, data : FilterBuffers,
   cutoffFreq : {360000, 720000}, sampleRate : {24000, 48000}]

CallApplyLowPassFilter ==
  /\ call.fn = "applyLowPassFilter"
  /\ call.pc = "called"
  /\ call' = [fn |-> call.fn, pc |-> "returned", data |-> call.data,
              cutoffFreq |-> call.cutoffFreq, sampleRate |-> call.sampleRate,
              out |-> ApplyLowPassFilter(call.data, call.cutoffFreq,
                                         call.sampleRate)]
  /\ UNCHANGED <<uiVars, lifeVars, queueVars, isFirstRun, isSpeakingRef,
                 timer, tasks, confirmed, greeted, work, last, userIdRef,
                 posted>>

\* samples of the filtered buffers handed to the interpolation
SampleValues == {-32768, -3, -2, 0, 2, 3, 32767}

InterpolatedCalls ==
  [fn : {"interpolated"}, pc : {"called"},
   filteredData : [1..3 -> SampleValues], i : 0..1,
   inputSampleRate : {InputRate}, outputSampleRate : {OutputRate}]

\* one pass of the interpolation loop of downsampleAudio: result[i]
CallInterpolated ==
  /\ call.fn = "interpolated"
  /\ call.pc = "called"
  /\ call' = [fn |-> call.fn, pc |-> "returned",
              filteredData |-> call.filteredData, i |-> call.i,
              inputSampleRate |-> call.inputSampleRate,
              outputSampleRate |-> call.outputSampleRate,
              out |-> Interpolated(call.filteredData, call.i,
                                   Ratio(call.inputSampleRate,
                                         call.outputSampleRate))]
  /\ UNCHANGED <<uiVars, lifeVars, queueVars, isFirstRun, isSpeakingRef,
                 timer, tasks, confirmed, greeted, work, last, userIdRef,
                 posted>>

\* processNextAudioChunk with a sink whose failAt-th call throws (0: none
\* does).  The head is shifted and the in-flight flag set before
\* sendAudioData is called; the exception leaves through every frame of
\* the recursion, past the line that clears the flag.
RECURSIVE ProcessNextAudioChunkThrowing(_, _, _, _)
ProcessNextAudioChunkThrowing(q, processing, snk, failAt) ==
  IF Len(q) > 0 /\ ~processing
  THEN IF failAt = 1
       THEN [queue |-> Tail(q), processing |-> TRUE, sink |-> snk,
             thrown |-> TRUE]
       ELSE ProcessNextAudioChunkThrowing(Tail(q), FALSE,
                                          Append(snk, Head(q)),
                                          IF failAt = 0 THEN 0 ELSE failAt - 1)
  ELSE [queue |-> q, processing |-> processing, sink |-> snk,
        thrown |-> FALSE]

\* lines 169-185 of processBackendResponse for a downsampled buffer of
\* `length` samples: push the chunks, start the drain unless one is in
\* flight; an exception of the sink is caught at line 182
EnqueueAndDrain(q, processing, snk, reply, length, failAt) ==
  LET pushed == PushChunks(q, reply, 0, length)
  IN  IF processing
      THEN [queue |-> pushed, processing |-> TRUE, sink |-> snk,
            thrown |-> FALSE]
      ELSE ProcessNextAudioChunkThrowing(pushed, FALSE, snk, failAt)

\* two replies, one after the other, on refs of their own; the sink throws
\* on its failAt-th call during the first reply and accepts every chunk of
\* the second
ReplyLengths == {0, ChunkSize, 2 * ChunkSize}
RepliesCalls ==
  [fn : {"replies"}, pc : {"called"}, first : ReplyLengths,
   second : ReplyLengths, failAt : 0..2, queue : {<<>>},
   processing : {FALSE}, sink : {<<>>}, thrown : {FALSE}]

\* the first reply is enqueued and drained
CallFirstReply ==
  /\ call.fn = "replies"
  /\ call.pc = "called"
  /\ LET r == EnqueueAndDrain(call.queue, call.processing, call.sink, 1,
                              call.first, call.failAt)
     IN  call' = [call EXCEPT !.pc = "first", !.queue = r.queue,
                              !.processing = r.processing, !.sink = r.sink,
                              !.thrown = r.thrown]
  /\ UNCHANGED <<uiVars, lifeVars, queueVars, isFirstRun, isSpeakingRef,
                 timer, tasks, confirmed, greeted, work, last, userIdRef,
                 posted>>

\* the second reply is enqueued and drained
CallSecondReply ==
  /\ call.fn = "replies"
  /\ call.pc = "first"
  /\ LET r == EnqueueAndDrain(call.queue, call.processing, call.sink, 2,
                              call.second, 0)
     IN  call' = [call EXCEPT !.pc = "returned", !.queue = r.queue,
                              !.processing = r.processing, !.sink = r.sink]
  /\ UNCHANGED <<uiVars, lifeVars, queueVars, isFirstRun, isSpeakingRef,
                 timer, tasks, confirmed, greeted, work, last, userIdRef,
                 posted>>

\* ---- sendMessageToBackend ---------------------------------------------------
\* What axios.post settles with: a rejection, or a response whose data is
\* an array of elements or something else (null, an object, a string).  An
\* element is null or an object; its text is "" when the property is
\* missing or empty, which `||` treats alike.
ResponseElements ==
  {[kind |-> "null", text |-> ""], [kind |-> "object", text |-> ""],
   [kind |-> "object", text |-> "Hello"]}

ResponseData ==
  {[kind |-> "other", elems |-> <<>>]}
    \cup {[kind |-> "array", elems |-> e] :
            e \in {<<>>} \cup [1..1 -> ResponseElements]
                        \cup [1..2 -> ResponseElements]}

Responses ==
  {[transport |-> "failed", data |-> [kind |-> "other", elems |-> <<>>]]}
    \cup [transport : {"ok"}, data : ResponseData]

\* sendMessageToBackend after `await axios.post`: what it returns, or what
\* it throws again from its catch block
SendMessageToBackend(response) ==
  IF response.transport = "failed"
  THEN [kind |-> "throw", value |-> "AxiosError"]
  ELSE IF response.data.kind = "array" /\ Len(response.data.elems) > 0
  THEN LET lastResponse == response.data.elems[Len(response.data.elems)]
       IN  IF lastResponse.kind = "null"
           THEN [kind |-> "throw", value |-> "TypeError"]
           ELSE [kind |-> "return",
                 value |-> IF lastResponse.text # "" THEN lastResponse.text
                           ELSE "Sorry, I didn't catch that."]
  ELSE [kind |-> "return", value |-> "Sorry, I didn't get a response."]

\* the try block of onTranscription from the backend call on: the text
\* handed to processBackendResponse (and so to textToSpeech), or the error
\* message set by the catch block when the call threw
TurnAfterResponse(response) ==
  LET r == SendMessageToBackend(response)
  IN  IF r.kind = "return"
      THEN [result |-> r, synthesis |-> <<r.value>>, error |-> ""]
      ELSE [result |-> r, synthesis |-> <<>>,
            error |-> "Failed to process your message. Please try again."]

SendMessageToBackendCalls ==
  [fn : {"sendMessageToBackend"}, pc : {"called"}, response : Responses]

CallSendMessageToBackend ==
  /\ call.fn = "sendMessageToBackend"
  /\ call.pc = "called"
  /\ call' = [fn |-> call.fn, pc |-> "returned", response |-> call.response,
              out |-> TurnAfterResponse(call.response)]
  /\ UNCHANGED <<uiVars, lifeVars, queueVars, isFirstRun, isSpeakingRef,
                 timer, tasks, confirmed, greeted, work, last, userIdRef,
                 posted>>

\* ---- the indices the interpolation loop reads --------------------------------
\* lengths and rates of the buffers whose loop is followed; 101 / 100 is a
\* ratio just above one
IndexLengths == {0, 1, 2, 3, 35, 100, 101, 102, 147, 160, 480}
IndexRates == {100, 101, 16000, 24000, 44100, 48000}

\* for (let i = 0; i < newLength; i++): the index computed in each pass
InterpolationIndices(length, inputSampleRate, outputSampleRate) ==
  LET ratio == Ratio(inputSampleRate, outputSampleRate)
      newLength == NewLength(length, inputSampleRate, outputSampleRate)
  IN  [i \in 1..newLength |-> Position(i - 1, ratio).index]

InterpolationLoopCalls ==
  {c \in [fn : {"interpolationLoop"}, pc : {"called"}, length : IndexLengths,
          inputSampleRate : IndexRates, outputSampleRate : IndexRates] :
     c.inputSampleRate > c.outputSampleRate}

CallInterpolationLoop ==
  /\ call.fn = "interpolationLoop"
  /\ call.pc = "called"
  /\ call' = [fn |-> call.fn, pc |-> "returned", length |-> call.length,
              inputSampleRate |-> call.inputSampleRate,
              outputSampleRate |-> call.outputSampleRate,
              out |-> InterpolationIndices(call.length, call.inputSampleRate,
                                           call.outputSampleRate)]
  /\ UNCHANGED <<uiVars, lifeVars, queueVars, isFirstRun, isSpeakingRef,
                 timer, tasks, confirmed, greeted, work, last, userIdRef,
                 posted>>

InitCalls ==
  Mounted /\ call \in (ProcessNextAudioChunkCalls \cup ChunkingCalls
                         \cup DownsampleAudioCalls
                         \cup ProcessBackendResponseCalls
                         \cup CoefficientsCalls
                         \cup ApplyLowPassFilterCalls
                         \cup InterpolatedCalls
                         \cup RepliesCalls
                         \cup SendMessageToBackendCalls
                         \cup InterpolationLoopCalls)

NextCalls ==
  \/ CallProcessNextAudioChunk
  \/ CallChunking
  \/ CallDownsampleAudio
  \/ CallProcessBackendResponse
  \/ CallCoefficients
  \/ CallApplyLowPassFilter
  \/ CallInterpolated
  \/ CallFirstReply
  \/ CallSecondReply
  \/ CallSendMessageToBackend
  \/ CallInterpolationLoop

SpecCalls == InitCalls /\ [][NextCalls]_vars

\* ---- properties ----------------------------------------------------------

\* replies whose synthesis request is issued and whose enqueue is not done
Synthesizing == {t \in TaskIds : tasks[t].pc = "tts"}
\* backend requests that are awaiting their reply
AwaitingReply == {t \in TaskIds : tasks[t].pc = "backend"}
\* a backend request is issued in this step
Dispatches == \E t \in TaskIds : tasks[t].pc = "none" /\ tasks'[t].pc = "backend"
\* a synthesis request is issued in this step
Synthesizes == \E t \in TaskIds : tasks[t].pc # "tts" /\ tasks'[t].pc = "tts"
\* the chunks of reply t in the sink, in the order of their delivery
Delivered(t) ==
  LET OfReply(c) == c.reply = t
  IN  SelectSeq(sink, OfReply)

\* C1: a final transcript with confidence > 0.7 that is handled while the
\* speaking flag is set is dropped: no backend call, no synthesis, and the
\* speaking flag, the chunk queue, the in-flight flag and the sink stay as
\* they are.
C1_BargeInDropped ==
  [][\A s \in ServiceIds, e \in TranscriptEvents :
       (OnTranscription(s, e) /\ e.isFinal /\ e.confidence > ConfThreshold
          /\ isSpeakingRef)
       => (~Dispatches /\ ~Synthesizes
           /\ UNCHANGED <<tasks, isSpeakingRef, audioChunkQueueRef,
                          isProcessingChunkRef, sink>>)]_vars

\* C1 witness: a qualifying transcript has just been dropped while a reply
\* was being synthesized.
C1_Witness ==
  /\ last.op = "onTranscription" /\ last.note = "dropped"
  /\ isSpeakingRef
  /\ Synthesizing # {}

\* C2: a transcript that is not final, or whose confidence is 0.7 or less,
\* issues no backend call, whatever the state.
C2_UnqualifiedIgnored ==
  [][\A s \in ServiceIds, e \in TranscriptEvents :
       (OnTranscription(s, e) /\ (~e.isFinal \/ e.confidence <= ConfThreshold))
       => (~Dispatches /\ UNCHANGED tasks)]_vars

\* C2 witness: a final transcript with confidence exactly 0.7 has just been
\* ignored while the avatar was silent.
C2_Witness ==
  /\ last.op = "onTranscription" /\ last.note = "ignored"
  /\ last.id = ConfThreshold
  /\ ~isSpeakingRef

\* C3 (as claimed): no transcript is dispatched to the backend while any
\* reply is between its synthesis request and the end of its enqueue.
C3_NoDispatchWhileSynthesizing ==
  [][Synthesizing # {} => ~Dispatches]_vars

\* C4 (as claimed): at most one backend request is outstanding.
C4_OneOutstandingRequest ==
  Cardinality(AwaitingReply) <= 1

\* C5 (as claimed): between the return of handleStop and the next
\* handleStart no chunk is handed to the sink.
C5_NoAudioAfterStop ==
  [][stopped => sink' = sink]_vars

\* C6: handleStop can run in every state, and right after it the chunk
\* queue is empty and the in-flight and speaking flags are false.
C6_StopResets ==
  /\ [](work < MaxWork => ENABLED HandleStop)
  /\ [][last'.op = "handleStop" /\ last' # last
          => (audioChunkQueueRef' = <<>> /\ ~isProcessingChunkRef'
              /\ ~isSpeakingRef')]_vars

\* C6 witness: handleStop has just returned while a synthesis request and a
\* backend request are in flight.
C6_Witness ==
  /\ last.op = "handleStop"
  /\ Synthesizing # {}
  /\ AwaitingReply # {}
  /\ ~isSpeakingRef

\* C7 (as claimed): when the backend call or the synthesis of a turn fails,
\* an error message is shown and the speaking flag is false afterwards.
C7_FailureReported ==
  [][(last' # last /\ last'.note = "error"
        /\ last'.op \in {"backendReply", "ttsAudio"}
        /\ tasks[last'.id].kind = "turn")
       => (error' # "" /\ ~isSpeakingRef')]_vars

\* C8 (as claimed): every session that handled a connect confirmation has
\* scheduled exactly one greeting.
C8_GreetingOncePerSession ==
  \A s \in confirmed : greeted[s] = 1

\* C9 (as claimed): in the first session no transcript is dispatched to
\* the backend before the greeting's synthesis request is issued.
C9_GreetingBeforeTurns ==
  [][(session = 1 /\ Dispatches) => timer = "fired"]_vars

C11_SecondDrainIsNoOp ==
  (call.fn = "processNextAudioChunk" /\ call.pc = "returned"
     /\ (call.processing \/ call.queue = <<>>))
  => call.out = [queue |-> call.queue, processing |-> call.processing,
                 sink |-> call.sink]

\* the call returned with the flag set and chunks waiting in the queue
C11_Witness ==
  /\ call.fn = "processNextAudioChunk"
  /\ call.pc = "returned"
  /\ call.processing
  /\ Len(call.queue) > 1

\* the step taken is the end of one of the failure paths: the microphone was
\* refused, the transcription service failed to start, the backend call
\* failed, or the synthesis (or anything after it inside the reply) threw
FailurePath ==
  /\ last' # last
  /\ \/ last'.op = "microphone" /\ last'.note = "denied"
     \/ last'.op \in {"deepgramStart", "backendReply", "ttsAudio"}
          /\ last'.note = "error"

\* C12 (as claimed): when a failure path has run, the speaking flag and the
\* in-flight flag are both cleared, so that the next qualifying transcript
\* of a connected session is dispatched again.
C12_FlagsClearAfterFailure ==
  [][FailurePath => (~isSpeakingRef' /\ ~isProcessingChunkRef')]_vars

\* handleStop has returned, no handleStart was called since, every
\* stopRecording that was suspended in `await stop()` has run to its end
\* and no earlier handleStart is still suspended
StopCompleted ==
  /\ stopped
  /\ \A s \in ServiceIds : pendingStops[s] = 0
  /\ \A s \in StartIds : startPc[s] \notin {"mic", "simli"}

\* C13 (as claimed): once a stop and its asynchronous cleanup have
\* completed, no microphone stream is open and no transcription service
\* that was created is still running.
C13_StreamsReleasedAfterStop ==
  StopCompleted => (micOpen = {} /\ \A s \in ServiceIds : services[s] \notin Live)

\* the chunks of a sequence of chunks, joined in order
RECURSIVE Concatenated(_)
Concatenated(chunks) ==
  IF chunks = <<>> THEN <<>> ELSE Head(chunks) \o Concatenated(Tail(chunks))

\* C14: the chunks cut from a buffer, joined in order, are the buffer again;
\* every chunk but the last has exactly 4800 samples, the last has between 1
\* and 4800, and an empty buffer gives no chunk.
C14_ChunkingRoundTrip ==
  (call.fn = "chunking" /\ call.pc = "returned")
  => /\ Concatenated(call.out) = call.buffer
     /\ \A k \in 1..Len(call.out) :
          /\ k < Len(call.out) => Len(call.out[k]) = 4800
          /\ Len(call.out[k]) \in 1..4800
     /\ call.buffer = <<>> => call.out = <<>>

\* a buffer that is cut into two full chunks and a shorter last one
C14_Witness ==
  /\ call.fn = "chunking"
  /\ call.pc = "returned"
  /\ Len(call.out) = 3
  /\ Len(call.out[3]) = 1
  /\ call.buffer[1] # call.buffer[4801]

\* C15: a synthesized buffer of 24000 samples (one second at 24000 Hz) is
\* resampled to 16000 samples and cut into chunks of 4800, 4800, 4800 and
\* 1600 samples, which reach the sink in exactly that order.
C15_OneSecondReply ==
  [][\A t \in TaskIds :
       TtsAudio(t, 24000)
       => /\ tasks'[t].samples = 16000
          /\ SubSeq(sink', Len(sink) + 1, Len(sink')) =
               <<[reply |-> t, off |-> 0, len |-> 4800],
                 [reply |-> t, off |-> 4800, len |-> 4800],
                 [reply |-> t, off |-> 9600, len |-> 4800],
                 [reply |-> t, off |-> 14400, len |-> 1600]>>]_vars

\* the reply handled last was one second long and its four chunks are in
\* the sink
C15_Witness ==
  /\ last.op = "ttsAudio" /\ last.note = "ok"
  /\ tasks[last.id].samples = 16000
  /\ Len(Delivered(last.id)) = 4

\* C16 (as claimed): for rates R_in > R_out downsampleAudio returns exactly
\* floor(len * R_out / R_in) samples.
C16_ResampledLength ==
  (call.fn = "downsampleAudio" /\ call.pc = "returned"
     /\ call.inputSampleRate > call.outputSampleRate)
  => /\ call.out.kind = "return"
     /\ Len(call.out.value) =
          (Len(call.audioData) * call.outputSampleRate)
            \div call.inputSampleRate

\* C17: at equal rates downsampleAudio returns the buffer it was given,
\* sample for sample, and not a filtered copy of it.
C17_EqualRatesIdentity ==
  (call.fn = "downsampleAudio" /\ call.pc = "returned"
     /\ call.inputSampleRate = call.outputSampleRate)
  => /\ call.out.kind = "return"
     /\ call.out.value = call.audioData

\* the call returned at equal rates for a buffer that the filter would
\* have changed
C17_Witness ==
  /\ call.fn = "downsampleAudio"
  /\ call.pc = "returned"
  /\ call.inputSampleRate = call.outputSampleRate
  /\ Len(call.audioData) = 480
  /\ ApplyLowPassFilter(call.audioData, 45 * call.outputSampleRate,
                        call.inputSampleRate) # call.audioData

\* C18: whenever the input rate is below the output rate downsampleAudio
\* throws "Upsampling is not supported" and returns no buffer; inside a
\* reply the exception is caught, no chunk is enqueued or handed to the
\* sink, and the speaking flag is cleared.
C18_UpsamplingThrows ==
  /\ (call.fn = "downsampleAudio" /\ call.pc = "returned"
        /\ call.inputSampleRate < call.outputSampleRate)
     => call.out = [kind |-> "throw", value |-> "Upsampling is not supported"]
  /\ (call.fn = "processBackendResponse" /\ call.pc = "returned"
        /\ call.inputSampleRate < call.outputSampleRate)
     => /\ call.out.caught
        /\ call.out.queue = call.queue
        /\ call.out.sink = call.sink
        /\ ~call.out.isSpeaking

\* a reply whose audio was to be upsampled has ended: it held samples, the
\* speaking flag was up and the drain was free to run
C18_Witness ==
  /\ call.fn = "processBackendResponse"
  /\ call.pc = "returned"
  /\ call.inputSampleRate < call.outputSampleRate
  /\ Len(call.audioData) = 480
  /\ call.isSpeaking /\ ~call.processing

\* C19: every request sent to the backend carries the identifier that was
\* generated once, when the component was mounted, however many turns and
\* sessions there are; the identifier is never replaced.
C19_SameUserId ==
  /\ userIdRef = FirstUserId
  /\ \A i \in 1..Len(posted) : posted[i] = FirstUserId

\* three requests were sent, and the first of them has been answered
C19_Witness ==
  /\ Len(posted) = 3
  /\ \E t \in TaskIds : tasks[t].kind = "turn" /\ tasks[t].pc # "backend"

\* the normalized kernel has 31 coefficients, none of them NaN, and their
\* sum is 1.0 up to half a unit of the last place for each coefficient
SumsToOne(kernel) ==
  /\ Len(kernel.taps) = 31
  /\ ~kernel.nan
  /\ SumOf(kernel.taps) - One \in -16..16

C21_DispatchedDuringPlayback ==
  /\ [][(last' # last /\ last'.op = "ttsAudio" /\ last'.note = "ok")
          => ~isSpeakingRef']_vars
  /\ [][\A s \in ServiceIds, e \in TranscriptEvents :
          (OnTranscription(s, e) /\ Qualifies(e)
             /\ last.op = "ttsAudio" /\ last.note = "ok"
             /\ tasks[last.id].samples > 0)
          => (Dispatches /\ last'.note = "dispatched")]_vars

\* C21 witness: a transcript has just been dispatched while every chunk of
\* a reply of more than one chunk is in the sink; that reply and the new
\* request are the only ones.
C21_Witness ==
  /\ last.op = "onTranscription" /\ last.note = "dispatched"
  /\ \E t \in TaskIds :
       /\ tasks[t].pc = "played"
       /\ tasks[t].samples > ChunkSize
       /\ Delivered(t) = PushChunks(<<>>, t, 0, tasks[t].samples)
       /\ \A u \in TaskIds \ {t, last.id} : tasks[u].pc = "none"

\* C22: the step that receives a backend reply raises the speaking flag and
\* issues the synthesis request, with the flag raised first and nothing
\* scheduled in between; a transcript handled right after the reply was
\* received finds the flag set and is not dispatched.
C22_FlagSetWithReply ==
  /\ [][(last' # last /\ last'.op = "backendReply" /\ last'.note = "ok")
          => (isSpeakingRef' /\ Synthesizes
              /\ tasks[last'.id].pc = "backend"
              /\ tasks'[last'.id].pc = "tts")]_vars
  /\ [][\A s \in ServiceIds, e \in TranscriptEvents :
          (OnTranscription(s, e) /\ last.op = "backendReply"
             /\ last.note = "ok")
          => (~Dispatches /\ UNCHANGED tasks)]_vars

\* C22 witness: a qualifying transcript has just been dropped while the
\* only reply there is, a turn, has received its backend reply and awaits
\* its synthesis: the flag that dropped it was raised with that reply.
C22_Witness ==
  /\ last.op = "onTranscription" /\ last.note = "dropped"
  /\ isSpeakingRef
  /\ \E t \in TaskIds :
       /\ tasks[t] = [pc |-> "tts", kind |-> "turn", samples |-> 0]
       /\ \A u \in TaskIds \ {t} : tasks[u].pc = "none"

\* C23 (as claimed): between the return of handleStop and the next
\* handleStart the speaking flag is not raised and no backend request and
\* no synthesis request is issued, whatever fires in between.
C23_IdleAfterStop ==
  [][stopped => (~Dispatches /\ ~Synthesizes
                 /\ (isSpeakingRef' => isSpeakingRef))]_vars

\* C24: when the microphone permission is refused, handleStart leaves one
\* error message on display, clears the loading flag and ends: it neither
\* starts the avatar client nor registers its listeners, no transcription
\* service is created or changed, and the speaking flag and the chunk queue
\* are what they were.
C24_MicrophoneDenied ==
  [][(last' # last /\ last'.op = "microphone" /\ last'.note = "denied")
       => /\ error' = "Error starting interaction: Microphone permission denied"
          /\ ~isLoading'
          /\ startPc[last'.id] = "mic" /\ startPc'[last'.id] = "done"
          /\ UNCHANGED <<connHandlers, simliConn, services,
                         deepgramServiceRef, isSpeakingRef,
                         audioChunkQueueRef>>]_vars

\* C24 witness: the permission was refused on the restart that followed a
\* session with a confirmed connection.
C24_Witness ==
  /\ last = [op |-> "microphone", id |-> 2, note |-> "denied"]
  /\ 1 \in confirmed
  /\ error = "Error starting interaction: Microphone permission denied"
  /\ ~isLoading

\* the value a + fraction * (b - a) of the interpolation call, times One
InterpolationPoint ==
  LET pos == Position(call.i, Ratio(call.inputSampleRate,
                                    call.outputSampleRate))
      a == SampleOf(call.filteredData, pos.index)
      b == SampleOf(call.filteredData, pos.index + 1)
  IN  a * One + pos.fraction * (b - a)

\* r is an integer nearest to x / One
Nearest(x, r) == r * One - x <= One \div 2 /\ x - r * One <= One \div 2
\* ... and of two nearest integers it is the one further from zero
NearestTiesAway(x, r) ==
  /\ Nearest(x, r)
  /\ r * One - x = One \div 2 => x >= 0
  /\ x - r * One = One \div 2 => x < 0
\* ... and of two nearest integers it is the larger one
NearestTiesUp(x, r) == Nearest(x, r) /\ x - r * One # One \div 2

\* every sample the filter call returned is its sum rounded to a nearest
\* integer and stored modulo 2^16, without saturation
FilterStoresUnclamped ==
  (call.fn = "applyLowPassFilter" /\ call.pc = "returned")
  => LET k == Coefficients(call.cutoffFreq, call.sampleRate)
     IN  \A n \in 1..Len(call.data) :
           LET x == FilterSum(call.data, k.taps, n - 1)
           IN  \E r \in {x \div One, x \div One + 1} :
                 Nearest(x, r) /\ call.out[n] = Int16(r)

\* C25 (as claimed): each interpolated sample is the value
\* a + fraction * (b - a) rounded to the nearest integer, ties going away
\* from zero, also for negative values; each filtered sample is its sum
\* rounded to the nearest integer and stored without saturation.
C25_RoundsHalfAwayFromZero ==
  /\ (call.fn = "interpolated" /\ call.pc = "returned")
     => NearestTiesAway(InterpolationPoint, call.out)
  /\ FilterStoresUnclamped

\* C25 (amended): each interpolated sample is the value
\* a + fraction * (b - a) rounded to the nearest integer, ties going to the
\* larger integer (towards zero for negative values); each filtered sample
\* is its sum rounded to the nearest integer and stored modulo 2^16,
\* without saturation.
C25_RoundsHalfUp ==
  /\ (call.fn = "interpolated" /\ call.pc = "returned")
     => NearestTiesUp(InterpolationPoint, call.out)
  /\ FilterStoresUnclamped

\* C25 witness: the interpolation returned for a negative value that lies
\* halfway between two integers.
C25_Witness ==
  /\ call.fn = "interpolated" /\ call.pc = "returned"
  /\ InterpolationPoint < 0
  /\ InterpolationPoint % One = One \div 2

\* C26: provided every synthesis request eventually returns or fails, the
\* speaking flag never stays set for ever: whenever it is set, it is cleared
\* later, for greetings, for turn replies and for replies that overlap.
C26_NeverPermanentlyGated ==
  isSpeakingRef ~> ~isSpeakingRef

\* C26 witness: the flag is set while the greeting and a turn reply both
\* await their synthesis.
C26_Witness ==
  /\ isSpeakingRef
  /\ \E t, u \in Synthesizing : tasks[t].kind = "greeting" /\ tasks[u].kind = "turn"

\* transcription services whose stream is open
OpenStreams == {s \in ServiceIds : services[s] = "connected"}

\* C27 (as claimed): at most one transcription stream is open at any time,
\* and a "connected" event of the avatar client creates exactly one
\* transcription service, whatever starts and stops came before.
C27_OneStream ==
  /\ [](Cardinality(OpenStreams) <= 1)
  /\ [][(last' # last /\ last'.op = "simliConnected")
          => Cardinality({s \in ServiceIds : services[s] = "none"
                                               /\ services'[s] # "none"}) = 1]_vars

\* C28: between any two steps of the event loop the chunk queue is empty
\* and the in-flight flag is false: with a sink that accepts every chunk,
\* the step that enqueues a reply also hands all its chunks to the sink.
C28_DrainedWithinStep ==
  audioChunkQueueRef = <<>> /\ ~isProcessingChunkRef

\* C28 witness: a reply of four chunks has just been enqueued, and all four
\* are in the sink.
C28_Witness ==
  /\ last.op = "ttsAudio" /\ last.note = "ok"
  /\ Len(Delivered(last.id)) = 4
  /\ audioChunkQueueRef = <<>>

\* C29 (as claimed): the in-flight flag is false after every drain attempt,
\* also after one in which the sink threw, and the chunks of the reply that
\* follows are all delivered.
C29_FlagClearedAfterSinkFailure ==
  (call.fn = "replies" /\ call.pc \in {"first", "returned"})
  => /\ ~call.processing
     /\ call.pc = "returned"
        => LET OfSecond(c) == c.reply = 2
           IN  SelectSeq(call.sink, OfSecond)
                 = PushChunks(<<>>, 2, 0, call.second)

\* C30 (as claimed): the replies to transcripts reach the sink in the order
\* in which the transcripts were dispatched (requests are numbered in that
\* order): no chunk of a later request is in the sink before a chunk of an
\* earlier one.
C30_RepliesInDispatchOrder ==
  \A i, j \in 1..Len(sink) :
    (i < j /\ tasks[sink[i].reply].kind = "turn"
           /\ tasks[sink[j].reply].kind = "turn")
    => sink[i].reply <= sink[j].reply

\* the sentences sendMessageToBackend returns in place of a reply
FallbackSentences ==
  {"Sorry, I didn't catch that.", "Sorry, I didn't get a response."}

\* the response carries a reply: a non-empty array whose last element has
\* a text
CarriesReply(response) ==
  /\ response.data.kind = "array"
  /\ Len(response.data.elems) > 0
  /\ response.data.elems[Len(response.data.elems)].text # ""

\* C31 (as claimed): a response that arrived and carries no reply (it is
\* not a non-empty array, or its last element has no text) is no error:
\* sendMessageToBackend returns a fallback sentence and that sentence is
\* handed to the synthesis; an error is raised, and the synthesis skipped,
\* only when the transport failed.
C31_FallbackIsNoError ==
  (call.fn = "sendMessageToBackend" /\ call.pc = "returned")
  => /\ (call.response.transport = "ok" /\ ~CarriesReply(call.response))
        => /\ call.out.result.kind = "return"
           /\ call.out.result.value \in FallbackSentences
           /\ call.out.synthesis = <<call.out.result.value>>
           /\ call.out.error = ""
     /\ (call.out.result.kind = "throw" \/ call.out.error # ""
          \/ call.out.synthesis = <<>>)
        => call.response.transport = "failed"

\* C32: for every input length and all rates with R_in > R_out, every pass
\* i < newLength of the interpolation loop has
\* floor(i * R_in / R_out) + 1 < length: both samples it reads are inside
\* the filtered buffer, and the branch that copies filteredData[index] is
\* never taken.
C32_ReadsInsideBuffer ==
  (call.fn = "interpolationLoop" /\ call.pc = "returned")
  => \A i \in 1..Len(call.out) : call.out[i] + 1 < call.length

\* C32 witness: a loop of several passes has returned whose last pass read
\* the last sample of the buffer.
C32_Witness ==
  /\ call.fn = "interpolationLoop" /\ call.pc = "returned"
  /\ Len(call.out) > 1
  /\ call.out[Len(call.out)] + 2 = call.length

====
